---- MODULE Spec2Model ----
(***************************************************************************)
(* A model of the msr foundation library (src/src/lib.rs): the default     *)
(* in-memory IoState behind the SyncIoSystem contract, the BooleanExpr     *)
(* condition tree with its short-circuit evaluation, and the blanket       *)
(* TimeStepController adapter over Controller.                             *)
(***************************************************************************)
EXTENDS Integers, Sequences, FiniteSets, TLC

VARIABLES
    io,         \* the IoState of the process
    expr,       \* the condition tree the process has built
    last,       \* the most recent call on the container and what it returned
    prevRet,    \* history: what the eval call before `last` returned
    inserted,   \* history: the identifiers ever inserted into the inputs
    written,    \* history: per identifier, the last two values passed to write
    law,        \* the control law of the concrete controller
    ctl,        \* the controller driven through TimeStepController::next
    direct,     \* an equal controller driven through Controller::next
    ctlOut,     \* the output of the latest TimeStepController::next
    directOut,  \* the output of the latest Controller::next
    steps       \* the number of control steps taken

vars == <<io, expr, last, prevRet, inserted, written, law, ctl, direct, ctlOut, directOut, steps>>

ioVars == <<io, expr, last>>

histVars == <<prevRet, inserted, written>>

ctlVars == <<law, ctl, direct, ctlOut, directOut, steps>>

(***************************************************************************)
(* Bounds                                                                  *)
(***************************************************************************)
\* Values are 0..MaxValue: the external Value type, reduced to an ordered scalar.
MaxValue == 1

\* Largest number of nodes of a BooleanExpr tree.
MaxNodes == 4

\* Largest number of controller steps taken in one behaviour.
MaxSteps == 3

Value == 0..MaxValue

\* The identifiers of the gates: an input x that the cycle sets, and z.
Ids == {"x", "z"}

(***************************************************************************)
(* std::io::Result, Option and ()                                          *)
(***************************************************************************)
Ok(v) == [tag |-> "Ok", val |-> v]

Err(kind) == [tag |-> "Err", val |-> kind]

Some(v) == <<v>>

None == << >>

Unit == << >>

(***************************************************************************)
(* HashMap<String, Value>                                                  *)
(***************************************************************************)
HashMapNew == [k \in {} |-> 0]

\* HashMap::insert: creates the entry or overwrites it.
HashMapInsert(m, k, v) == [x \in (DOMAIN m) \cup {k} |-> IF x = k THEN v ELSE m[x]]

\* HashMap::remove: the map without the entry.
HashMapRemove(m, k) == [x \in (DOMAIN m) \ {k} |-> m[x]]

\* HashMap::get: the value wrapped in Some, or None.
HashMapGet(m, k) == IF k \in DOMAIN m THEN Some(m[k]) ELSE None

(***************************************************************************)
(* IoState and its SyncIoSystem implementation.  Every method takes        *)
(* &mut self, so each returns the container it leaves behind as well.      *)
(***************************************************************************)
IoStateDefault == [inputs |-> HashMapNew, outputs |-> HashMapNew]

\* A read that takes the entry out of the map (HashMap::remove for get).
ReadTaking(s, id) ==
    LET got == HashMapGet(s.inputs, id)
    IN  IF got = None
        THEN [io |-> s, ret |-> Err("NotFound")]
        ELSE [io |-> [s EXCEPT !.inputs = HashMapRemove(@, id)], ret |-> Ok(got[1])]

\* A read that falls back to the outputs when the input is missing.
ReadFallingBack(s, id) ==
    LET got == HashMapGet(s.inputs, id)
        out == HashMapGet(s.outputs, id)
    IN  IF got # None THEN [io |-> s, ret |-> Ok(got[1])]
        ELSE IF out # None THEN [io |-> s, ret |-> Ok(out[1])]
        ELSE [io |-> s, ret |-> Err("NotFound")]

Read(s, id) ==
    LET got == HashMapGet(s.inputs, id)
    IN  IF got = None
        THEN [io |-> s, ret |-> Err("NotFound")]
        ELSE [io |-> s, ret |-> Ok(got[1])]

\* A read_output that treats a missing output like a missing input.
ReadOutputStrict(s, id) ==
    LET got == HashMapGet(s.outputs, id)
    IN  IF got = None
        THEN [io |-> s, ret |-> Err("NotFound")]
        ELSE [io |-> s, ret |-> Ok(got)]

ReadOutput(s, id) == [io |-> s, ret |-> Ok(HashMapGet(s.outputs, id))]

\* A write that keeps the first value stored under the key.
WriteOnce(s, id, v) ==
    IF id \in DOMAIN s.outputs
    THEN [io |-> s, ret |-> Ok(Unit)]
    ELSE [io |-> [s EXCEPT !.outputs = HashMapInsert(@, id, v)], ret |-> Ok(Unit)]

\* A write that stores into the inputs mapping as well.
WriteBoth(s, id, v) ==
    [io  |-> [inputs |-> HashMapInsert(s.inputs, id, v),
              outputs |-> HashMapInsert(s.outputs, id, v)],
     ret |-> Ok(Unit)]

Write(s, id, v) ==
    [io |-> [s EXCEPT !.outputs = HashMapInsert(@, id, v)], ret |-> Ok(Unit)]

(***************************************************************************)
(* Source and Comparison: the leaves of the conditions.  A leaf compares   *)
(* a named input with a constant, as the tests' x > 5.0 and y == true do.  *)
(***************************************************************************)
In(id) == [src |-> "In", id |-> id, val |-> 0]

Const(v) == [src |-> "Const", id |-> "", val |-> v]

\* Source::cmp: the Comparison struct built by cmp_eq, cmp_gt, ...
Cmp(left, right, cmp) == [left |-> left, cmp |-> cmp, right |-> right]

cmp_eq(left, right) == Cmp(left, right, "Equal")

cmp_gt(left, right) == Cmp(left, right, "Greater")

\* The comparator applied to two resolved values.
Compare(cmp, l, r) ==
    CASE cmp = "Equal"          -> l = r
      [] cmp = "NotEqual"       -> l # r
      [] cmp = "Less"           -> l < r
      [] cmp = "LessOrEqual"    -> l <= r
      [] cmp = "Greater"        -> l > r
      [] cmp = "GreaterOrEqual" -> l >= r

\* Resolving a Source against the I/O system; st = [io, log, reads] carries
\* the container and the record of what the evaluation has touched so far.
Resolve(source, st) ==
    IF source.src = "Const"
    THEN [st |-> st, ret |-> Ok(source.val)]
    ELSE LET r == Read(st.io, source.id)
         IN  [st  |-> [st EXCEPT !.io = r.io, !.reads = Append(@, source.id)],
              ret |-> r.ret]

\* <Comparison as IoCondition>::eval: left, then right, then the comparator.
ComparisonEval(t, st) ==
    LET l == Resolve(t.left, st)
    IN  IF l.ret.tag # "Ok" THEN l
        ELSE LET r == Resolve(t.right, l.st)
             IN  IF r.ret.tag # "Ok" THEN r
                 ELSE [st |-> r.st, ret |-> Ok(Compare(t.cmp, l.ret.val, r.ret.val))]

\* The leaves the conditions are built from: x > 0 and z == 1.
LeafX == cmp_gt(In("x"), Const(0))

LeafZ == cmp_eq(In("z"), Const(1))

Leaves == {LeafX, LeafZ}

(***************************************************************************)
(* BooleanExpr<T>                                                          *)
(***************************************************************************)
True == [op |-> "True"]

False == [op |-> "False"]

And(a, b) == [op |-> "And", a |-> a, b |-> b]

Or(a, b) == [op |-> "Or", a |-> a, b |-> b]

Not(x) == [op |-> "Not", a |-> x]

Eval(t) == [op |-> "Eval", leaf |-> t]

\* The trees of exactly n nodes.
RECURSIVE ExprsOfSize(_)
ExprsOfSize(n) ==
    IF n = 1
    THEN {True, False} \cup {Eval(t) : t \in Leaves}
    ELSE {Not(x) : x \in ExprsOfSize(n - 1)}
         \cup UNION {{And(a, b) : a \in ExprsOfSize(i), b \in ExprsOfSize(n - 1 - i)} :
                      i \in 1..(n - 2)}
         \cup UNION {{Or(a, b) : a \in ExprsOfSize(i), b \in ExprsOfSize(n - 1 - i)} :
                      i \in 1..(n - 2)}

Exprs == UNION {ExprsOfSize(n) : n \in 1..MaxNodes}

\* An And arm that evaluates both operands before combining them (& for &&).
AndArmEager(ra, rb) ==
    IF ra.ret.tag # "Ok" THEN ra
    ELSE IF rb.ret.tag # "Ok" THEN rb
    ELSE [st |-> rb.st, ret |-> Ok(ra.ret.val /\ rb.ret.val)]

\* The And arm, Ok(a.eval(io)? && b.eval(io)?): ra is what a.eval returned and
\* rb what b.eval returns when it is run on the state a.eval left.
AndArm(ra, rb) ==
    IF ra.ret.tag # "Ok" THEN ra
    ELSE IF ~ra.ret.val THEN [st |-> ra.st, ret |-> Ok(FALSE)]
    ELSE IF rb.ret.tag # "Ok" THEN rb
    ELSE [st |-> rb.st, ret |-> Ok(rb.ret.val)]

\* An Or arm that takes a failed first operand for false (unwrap_or for ?).
OrArmLenient(ra, rb) ==
    IF ra.ret.tag = "Ok" /\ ra.ret.val THEN [st |-> ra.st, ret |-> Ok(TRUE)]
    ELSE IF rb.ret.tag # "Ok" THEN rb
    ELSE [st |-> rb.st, ret |-> Ok(rb.ret.val)]

\* An Or arm that combines like the And arm (&& for ||).
OrArmAsAnd(ra, rb) ==
    IF ra.ret.tag # "Ok" THEN ra
    ELSE IF ~ra.ret.val THEN [st |-> ra.st, ret |-> Ok(FALSE)]
    ELSE IF rb.ret.tag # "Ok" THEN rb
    ELSE [st |-> rb.st, ret |-> Ok(rb.ret.val)]

\* The Or arm, Ok(a.eval(io)? || b.eval(io)?).
OrArm(ra, rb) ==
    IF ra.ret.tag # "Ok" THEN ra
    ELSE IF ra.ret.val THEN [st |-> ra.st, ret |-> Ok(TRUE)]
    ELSE IF rb.ret.tag # "Ok" THEN rb
    ELSE [st |-> rb.st, ret |-> Ok(rb.ret.val)]

\* A Not arm that takes a failed operand for false (unwrap_or for ?).
NotArmLenient(rx) ==
    IF rx.ret.tag # "Ok" THEN [st |-> rx.st, ret |-> Ok(TRUE)]
    ELSE [st |-> rx.st, ret |-> Ok(~rx.ret.val)]

\* The Not arm, Ok(!x.eval(io)?).
NotArm(rx) ==
    IF rx.ret.tag # "Ok" THEN rx
    ELSE [st |-> rx.st, ret |-> Ok(~rx.ret.val)]

\* <BooleanExpr<T> as IoCondition>::eval.  p is the position of e in the
\* tree under evaluation (1 = first child, 2 = second child); a leaf's
\* position is logged when the leaf is invoked.
RECURSIVE eval(_, _, _)
eval(e, st, p) ==
    CASE e.op = "True"  -> [st |-> st, ret |-> Ok(TRUE)]
      [] e.op = "False" -> [st |-> st, ret |-> Ok(FALSE)]
      [] e.op = "And"   -> LET ra == eval(e.a, st, Append(p, 1))
                           IN  AndArm(ra, eval(e.b, ra.st, Append(p, 2)))
      [] e.op = "Or"    -> LET ra == eval(e.a, st, Append(p, 1))
                           IN  OrArm(ra, eval(e.b, ra.st, Append(p, 2)))
      [] e.op = "Not"   -> NotArm(eval(e.a, st, Append(p, 1)))
      [] e.op = "Eval"  -> ComparisonEval(e.leaf, [st EXCEPT !.log = Append(@, p)])

\* The evaluation state a caller starts eval with.
EvalStart(s) == [io |-> s, log |-> << >>, reads |-> << >>]

(***************************************************************************)
(* Controller and the blanket TimeStepController implementation.  A        *)
(* concrete controller is any control law over its own state; the model    *)
(* one counts its next calls and returns its new state as the output.      *)
(***************************************************************************)
CtlStates == {0, 1}

Inputs == {0, 1}

Durations == {1, 2}

Laws == [CtlStates \X Inputs \X Durations -> CtlStates]

ControllerNew == [state |-> 0, calls |-> 0]

\* <C as Controller<(I, &Duration), O>>::next((input, delta_t))
ControllerNext(f, c, arg) ==
    LET s == f[<<c.state, arg[1], arg[2]>>]
    IN  [c |-> [state |-> s, calls |-> c.calls + 1], out |-> s]

\* An adapter that steps the controller twice per call.
TimeStepNextTwice(f, c, input, delta_t) ==
    ControllerNext(f, ControllerNext(f, c, <<input, delta_t>>).c, <<input, delta_t>>)

\* An adapter that hands the controller a fixed duration.
TimeStepNextFixedTime(f, c, input, delta_t) ==
    ControllerNext(f, c, <<input, 1>>)

\* <C as TimeStepController<I, O>>::next(input, delta_t)
TimeStepNext(f, c, input, delta_t) ==
    ControllerNext(f, c, <<input, delta_t>>)

(***************************************************************************)
(* The process around the container: the cycle inserts inputs directly     *)
(* and calls the contract's methods; the condition tree is built once.     *)
(***************************************************************************)
Called(op, id, arg, ret, log, reads) ==
    [op |-> op, id |-> id, arg |-> arg, ret |-> ret, log |-> log, reads |-> reads]

NoCall == Called("new", "", 0, Ok(Unit), << >>, << >>)

NoRet == [tag |-> "None", val |-> Unit]

InitIo ==
    /\ io = IoStateDefault
    /\ last = NoCall
    /\ prevRet = NoRet
    /\ inserted = {}
    /\ written = HashMapNew

InitCtl ==
    /\ ctl = ControllerNew
    /\ direct = ControllerNew
    /\ ctlOut = 0
    /\ directOut = 0
    /\ steps = 0

\* io.inputs.insert(k, v)
InsertInput(k, v) ==
    /\ io' = [io EXCEPT !.inputs = HashMapInsert(@, k, v)]
    /\ last' = Called("insert", k, v, Ok(Unit), << >>, << >>)
    /\ UNCHANGED <<expr, ctlVars>>

\* io.read(k)
ReadCall(k) ==
    LET r == Read(io, k)
    IN  /\ io' = r.io
        /\ last' = Called("read", k, 0, r.ret, << >>, << >>)
        /\ UNCHANGED <<expr, ctlVars>>

\* io.read_output(k)
ReadOutputCall(k) ==
    LET r == ReadOutput(io, k)
    IN  /\ io' = r.io
        /\ last' = Called("read_output", k, 0, r.ret, << >>, << >>)
        /\ UNCHANGED <<expr, ctlVars>>

\* io.write(k, &v)
WriteCall(k, v) ==
    LET r == Write(io, k, v)
    IN  /\ io' = r.io
        /\ last' = Called("write", k, v, r.ret, << >>, << >>)
        /\ UNCHANGED <<expr, ctlVars>>

\* expr.eval(&mut io)
EvalCall ==
    LET r == eval(expr, EvalStart(io), << >>)
    IN  /\ io' = r.st.io
        /\ last' = Called("eval", "", 0, r.ret, r.st.log, r.st.reads)
        /\ UNCHANGED <<expr, ctlVars>>

\* One control step: the same (input, delta_t) goes to the controller behind
\* the adapter and to its twin called as a plain Controller.
StepCall(input, delta_t) ==
    /\ steps < MaxSteps
    /\ LET viaAdapter == TimeStepNext(law, ctl, input, delta_t)
           viaController == ControllerNext(law, direct, <<input, delta_t>>)
       IN  /\ ctl' = viaAdapter.c
           /\ ctlOut' = viaAdapter.out
           /\ direct' = viaController.c
           /\ directOut' = viaController.out
    /\ steps' = steps + 1
    /\ UNCHANGED <<law, ioVars, histVars>>

(***************************************************************************)
(* SpecIo: a process using the container through the contract, with the    *)
(* history of what it inserted and wrote.                                  *)
(***************************************************************************)
\* The history of writes to k after one more: the value before, then v.
Noted(h, k, v) ==
    HashMapInsert(h, k, IF k \in DOMAIN h THEN <<h[k][Len(h[k])], v>> ELSE <<v>>)

InitIoOnly ==
    /\ InitIo
    /\ expr = True
    /\ InitCtl
    /\ law = [a \in CtlStates \X Inputs \X Durations |-> 0]

NextIo ==
    \/ \E k \in Ids, v \in Value :
          InsertInput(k, v) /\ inserted' = inserted \cup {k} /\ UNCHANGED <<prevRet, written>>
    \/ \E k \in Ids : ReadCall(k) /\ UNCHANGED histVars
    \/ \E k \in Ids : ReadOutputCall(k) /\ UNCHANGED histVars
    \/ \E k \in Ids, v \in Value :
          WriteCall(k, v) /\ written' = Noted(written, k, v) /\ UNCHANGED <<prevRet, inserted>>

SpecIo == InitIoOnly /\ [][NextIo]_vars

(***************************************************************************)
(* Spec: a process using the container and evaluating its condition.       *)
(***************************************************************************)
Init ==
    /\ InitIo
    /\ expr \in Exprs
    /\ InitCtl
    /\ law = [a \in CtlStates \X Inputs \X Durations |-> 0]

Next ==
    \/ \E k \in Ids, v \in Value : InsertInput(k, v) /\ UNCHANGED histVars
    \/ \E k \in Ids : ReadCall(k) /\ UNCHANGED histVars
    \/ \E k \in Ids : ReadOutputCall(k) /\ UNCHANGED histVars
    \/ \E k \in Ids, v \in Value : WriteCall(k, v) /\ UNCHANGED histVars
    \/ EvalCall /\ UNCHANGED histVars

Spec == Init /\ [][Next]_vars

(***************************************************************************)
(* SpecReeval: input cycles and evaluations of the condition, with the     *)
(* result of the evaluation before the latest call kept.  The outputs hold *)
(* whatever earlier cycles wrote.                                          *)
(***************************************************************************)
\* Outputs left by earlier cycles: none, or every gate written with one value.
WrittenBefore == {HashMapNew} \cup {[k \in Ids |-> v] : v \in Value}

InitReeval ==
    /\ \E out \in WrittenBefore : io = [inputs |-> HashMapNew, outputs |-> out]
    /\ last = NoCall
    /\ prevRet = NoRet
    /\ inserted = {}
    /\ written = HashMapNew
    /\ expr \in Exprs
    /\ InitCtl
    /\ law = [a \in CtlStates \X Inputs \X Durations |-> 0]

Remember ==
    /\ prevRet' = IF last.op = "eval" THEN last.ret ELSE prevRet
    /\ UNCHANGED <<inserted, written>>

NextReeval ==
    \/ \E k \in Ids, v \in Value : InsertInput(k, v) /\ Remember
    \/ EvalCall /\ Remember

SpecReeval == InitReeval /\ [][NextReeval]_vars

(***************************************************************************)
(* SpecCtl: a control loop stepping a controller of any control law.       *)
(***************************************************************************)
InitControl ==
    /\ InitIo
    /\ expr = True
    /\ InitCtl
    /\ law \in Laws

NextControl == \E input \in Inputs, delta_t \in Durations : StepCall(input, delta_t)

SpecCtl == InitControl /\ [][NextControl]_vars

(***************************************************************************)
(* Properties of the container, stated for SpecIo                          *)
(***************************************************************************)
\* The value of the most recent write to k, given the history of writes.
Latest(h, k) == h[k][Len(h[k])]

\* C1: read_output(k) returns Some(v) for the value v of the most recent
\* write(k, v): a write round-trips and a later write(k, v2) overwrites.
C1_WriteReadOutputRoundTrip ==
    (last.op = "read_output" /\ last.id \in DOMAIN written)
        => (last.ret.tag = "Ok" /\ last.ret.val = Some(Latest(written, last.id)))

\* read_output(k) has returned v2 after write(k, v) and then write(k, v2), v # v2.
C1_Overwritten ==
    /\ last.op = "read_output"
    /\ last.id \in DOMAIN written
    /\ Len(written[last.id]) = 2
    /\ written[last.id][1] # written[last.id][2]
    /\ last.ret.tag = "Ok"
    /\ last.ret.val = Some(written[last.id][2])

\* C2: read(k) fails with NotFound for every k never inserted into the
\* inputs, whatever was read or written before, also after write(k, v).
C2_ReadNeverInsertedNotFound ==
    (last.op = "read" /\ last.id \notin inserted)
        => (last.ret.tag = "Err" /\ last.ret.val = "NotFound")

\* read(k) has failed for a k that is present in the outputs.
C2_ReadAfterWrite ==
    /\ last.op = "read"
    /\ last.id \notin inserted
    /\ last.id \in DOMAIN io.outputs
    /\ last.ret.tag = "Err"

\* C3: read_output(k) succeeds with None for every k never written to the
\* outputs, also when k is present in the inputs.
C3_ReadOutputNeverWrittenNone ==
    (last.op = "read_output" /\ last.id \notin DOMAIN written)
        => (last.ret.tag = "Ok" /\ last.ret.val = None)

\* read_output(k) has returned None for a k that is present in the inputs.
C3_ReadOutputOfInput ==
    /\ last.op = "read_output"
    /\ last.id \notin DOMAIN written
    /\ last.id \in DOMAIN io.inputs
    /\ last.ret.tag = "Ok"
    /\ last.ret.val = None

\* C4: the namespaces are independent: a write(k, v) leaves the inputs as
\* they were, and an insertion into the inputs leaves the outputs as they were.
C4_NamespacesIndependent ==
    [][/\ last'.op = "write" => io'.inputs = io.inputs
       /\ last'.op = "insert" => io'.outputs = io.outputs]_vars

\* write(k, v) has stored v under a k whose input holds another value.
C4_WriteToSharedId ==
    /\ last.op = "write"
    /\ last.id \in DOMAIN io.inputs
    /\ io.outputs[last.id] = last.arg
    /\ io.inputs[last.id] # last.arg

(***************************************************************************)
(* Properties of the evaluation of the condition, stated for Spec and      *)
(* SpecReeval.  The outcome of a tree in a given I/O state is defined here *)
(* on its own, without the evaluator.                                      *)
(***************************************************************************)
\* The node of e at position p.
RECURSIVE Sub(_, _)
Sub(e, p) ==
    IF p = << >> THEN e
    ELSE Sub(IF Head(p) = 1 THEN e.a ELSE e.b, Tail(p))

\* The positions of the nodes of e.
RECURSIVE Positions(_)
Positions(e) ==
    {<< >>}
    \cup (IF e.op \in {"And", "Or", "Not"}
          THEN {<<1>> \o q : q \in Positions(e.a)} ELSE {})
    \cup (IF e.op \in {"And", "Or"}
          THEN {<<2>> \o q : q \in Positions(e.b)} ELSE {})

IsPrefix(p, q) == Len(p) <= Len(q) /\ SubSeq(q, 1, Len(p)) = p

\* Position p comes before position q in a left-to-right walk of the leaves.
Before(p, q) ==
    \E i \in 1..Len(p) :
        /\ i <= Len(q)
        /\ SubSeq(p, 1, i - 1) = SubSeq(q, 1, i - 1)
        /\ p[i] < q[i]

\* Some leaf of the subtree at position p was invoked by the logged evaluation.
Touched(log, p) == \E i \in 1..Len(log) : IsPrefix(p, log[i])

\* A leaf fails in I/O state s when an input it names has no value.
LeafFails(t, s) ==
    \/ t.left.src = "In" /\ t.left.id \notin DOMAIN s.inputs
    \/ t.right.src = "In" /\ t.right.id \notin DOMAIN s.inputs

SourceValue(source, s) ==
    IF source.src = "Const" THEN source.val ELSE s.inputs[source.id]

\* The truth of a leaf all of whose inputs have values.
LeafHolds(t, s) == Compare(t.cmp, SourceValue(t.left, s), SourceValue(t.right, s))

\* What a subtree evaluates to: "T", "F", or "E" when a read it needs fails.
RECURSIVE Outcome(_, _)
Outcome(e, s) ==
    CASE e.op = "True"  -> "T"
      [] e.op = "False" -> "F"
      [] e.op = "And"   -> IF Outcome(e.a, s) = "T" THEN Outcome(e.b, s) ELSE Outcome(e.a, s)
      [] e.op = "Or"    -> IF Outcome(e.a, s) = "F" THEN Outcome(e.b, s) ELSE Outcome(e.a, s)
      [] e.op = "Not"   -> CASE Outcome(e.a, s) = "T" -> "F"
                             [] Outcome(e.a, s) = "F" -> "T"
                             [] OTHER -> "E"
      [] e.op = "Eval"  -> IF LeafFails(e.leaf, s) THEN "E"
                           ELSE IF LeafHolds(e.leaf, s) THEN "T" ELSE "F"

\* The classical truth value of a tree, a leaf that cannot be read counting as d.
RECURSIVE Classical(_, _, _)
Classical(e, s, d) ==
    CASE e.op = "True"  -> TRUE
      [] e.op = "False" -> FALSE
      [] e.op = "And"   -> Classical(e.a, s, d) /\ Classical(e.b, s, d)
      [] e.op = "Or"    -> Classical(e.a, s, d) \/ Classical(e.b, s, d)
      [] e.op = "Not"   -> ~Classical(e.a, s, d)
      [] e.op = "Eval"  -> IF LeafFails(e.leaf, s) THEN d ELSE LeafHolds(e.leaf, s)

\* C5: evaluation short-circuits left to right: the leaves are invoked in
\* tree order, a leaf under b of And(a, b) is invoked only when a evaluated
\* to true and a leaf under b of Or(a, b) only when a evaluated to false; so
\* And(False, Eval(leaf over a never-set z)) is Ok(false) with no read done.
C5_ShortCircuit ==
    last.op = "eval" =>
        /\ \A i, j \in 1..Len(last.log) : i < j => Before(last.log[i], last.log[j])
        /\ \A p \in Positions(expr) :
              /\ (Sub(expr, p).op = "And" /\ Touched(last.log, Append(p, 2)))
                    => Outcome(Sub(expr, p).a, io) = "T"
              /\ (Sub(expr, p).op = "Or" /\ Touched(last.log, Append(p, 2)))
                    => Outcome(Sub(expr, p).a, io) = "F"
        /\ (expr = And(False, Eval(LeafZ)) /\ "z" \notin DOMAIN io.inputs)
              => (last.ret.tag = "Ok" /\ last.ret.val = FALSE /\ last.reads = << >>)

\* And(False, Eval(leaf over z)) has been evaluated with z never set.
C5_FalseAndUnsetInput ==
    /\ last.op = "eval"
    /\ expr = And(False, Eval(LeafZ))
    /\ "z" \notin DOMAIN io.inputs
    /\ last.ret.tag = "Ok"
    /\ last.log = << >>

\* C6: a failing leaf aborts the evaluation: it is the last leaf invoked,
\* eval returns its NotFound error and no boolean; and eval fails only so.
C6_FailurePropagates ==
    last.op = "eval" =>
        /\ \A i \in 1..Len(last.log) :
              LeafFails(Sub(expr, last.log[i]).leaf, io)
                  => (i = Len(last.log) /\ last.ret.tag = "Err" /\ last.ret.val = "NotFound")
        /\ last.ret.tag = "Err"
              => (Len(last.log) > 0
                  /\ LeafFails(Sub(expr, last.log[Len(last.log)]).leaf, io))

\* A failure of the second leaf has come up through an And under a Not.
C6_FailureUnderNesting ==
    /\ last.op = "eval"
    /\ expr = Not(And(Eval(LeafX), Eval(LeafZ)))
    /\ last.log = <<<<1, 1>>, <<1, 2>>>>
    /\ last.ret.tag = "Err"

\* C7: when every leaf it invoked succeeded, eval returns the classical
\* truth value of the tree in the current I/O state (True is true and False
\* is false whatever the state holds), also when evaluated again after an
\* input changed.
C7_ClassicalTruth ==
    (last.op = "eval"
     /\ \A i \in 1..Len(last.log) : ~LeafFails(Sub(expr, last.log[i]).leaf, io))
        => (last.ret.tag = "Ok"
            /\ \A d \in BOOLEAN : last.ret.val = Classical(expr, io, d))

\* (x > 0) AND (z == 1) evaluated true, then false after z changed.
C7_Reevaluated ==
    /\ last.op = "eval"
    /\ expr = And(Eval(LeafX), Eval(LeafZ))
    /\ prevRet.tag = "Ok"
    /\ prevRet.val = TRUE
    /\ last.ret.tag = "Ok"
    /\ last.ret.val = FALSE
    /\ LeafHolds(LeafX, io)

\* C8: Not(Not(x)) evaluates as x does: the same boolean or the same error,
\* and the same leaves invoked and the same reads done in the same order.
C8_DoubleNegation ==
    last.op = "eval" =>
        LET r == eval(Not(Not(expr)), EvalStart(io), << >>)
        IN  /\ r.ret.tag = last.ret.tag
            /\ r.ret.val = last.ret.val
            /\ r.st.reads = last.reads
            /\ r.st.log = [i \in 1..Len(last.log) |-> <<1, 1>> \o last.log[i]]
            /\ r.st.io = io

\* A failing x and its double negation have both been evaluated.
C8_DoubleNegationOfFailure ==
    /\ last.op = "eval"
    /\ last.ret.tag = "Err"
    /\ expr.op = "Not"
    /\ expr.a.op = "Not"
    /\ eval(expr.a.a, EvalStart(io), << >>).ret = last.ret

\* C10: no entry is ever removed; read, read_output and eval leave both
\* mappings as they were, and write(k, v) only sets outputs[k] to v.
C10_EntriesKept ==
    [][/\ DOMAIN io.inputs \subseteq DOMAIN io'.inputs
       /\ DOMAIN io.outputs \subseteq DOMAIN io'.outputs
       /\ last'.op \in {"read", "read_output", "eval"} => io' = io
       /\ last'.op = "write" =>
             /\ io'.inputs = io.inputs
             /\ DOMAIN io'.outputs = DOMAIN io.outputs \cup {last'.id}
             /\ io'.outputs[last'.id] = last'.arg
             /\ \A k \in DOMAIN io.outputs \ {last'.id} :
                   io'.outputs[k] = io.outputs[k]]_vars

\* An evaluation has read x, failed to read z, and left the entries alone.
C10_FailedEvalKeepsEntries ==
    /\ last.op = "eval"
    /\ last.ret.tag = "Err"
    /\ last.reads = <<"x", "z">>
    /\ DOMAIN io.inputs = {"x"}
    /\ DOMAIN io.outputs = Ids

(***************************************************************************)
(* Properties of the adapter, stated for SpecCtl                           *)
(***************************************************************************)
\* C9: TimeStepController::next(input, dt) is Controller::next((input, dt)):
\* after every sequence of steps the two controllers have produced the same
\* output and are in the same state, one underlying call per adapter call.
C9_AdapterEquivalent ==
    /\ ctlOut = directOut
    /\ ctl = direct
    /\ ctl.calls = steps

\* Several steps have been taken and the duration has mattered to the law.
C9_SteppedWithTime ==
    /\ steps >= 2
    /\ ctl.state = 1
    /\ \E s \in CtlStates, i \in Inputs : law[<<s, i, 1>>] # law[<<s, i, 2>>]

====
